---- MODULE Spec2Model ----
(***************************************************************************)
(* A model of libavfilter/avfiltergraph.c: the filter graph container      *)
(* (alloc, add, create, free, lookup) and graph configuration (validity    *)
(* check, format negotiation with auto-inserted converters, link           *)
(* configuration).                                                         *)
(*                                                                         *)
(* Nodes are identified by their position in graph->filters (1-based).     *)
(* A link is identified by the output pad that created it, <<node, pad>>;  *)
(* a format list (AVFilterFormats) by its position in the heap fsets.      *)
(***************************************************************************)
EXTENDS Integers, Sequences, FiniteSets, TLC

\* ------------------------------------------------------------------ bounds
MaxFilters == 3        \* nodes the caller creates before configuring
MaxFreeCalls == 2      \* calls of avfilter_graph_free on the same handle

\* --------------------------------------------------------------- constants
EINVAL == 22
ENOMEM == 12
AVERROR(e) == -e
\* an error of a collaborator (a filter's init or config_props callback)
NodeError == -5

\* the value returned at each place that gives up
UnconnectedError == AVERROR(EINVAL)        \* lines 107 and 116
\* a variant of line 196 that reports the missing converter as out of memory
MissingConverterAsNoMem == AVERROR(ENOMEM)
MissingConverterError == AVERROR(EINVAL)   \* line 196
UnknownKindError == AVERROR(EINVAL)        \* line 207
\* a variant of line 221 with a value of its own for lists that cannot be merged
UnmergeableAsOwnValue == AVERROR(EINVAL + 1)
UnmergeableError == AVERROR(EINVAL)        \* line 221
\* sizeof(inst_name): snprintf writes at most this many bytes, NUL included
InstNameSize == 30

NoNode == 0
NoSet == 0
NoFormat == -1
NoLink == <<0, 0>>
NoName == <<"", 0>>

\* every format of a media type, as avfilter_all_formats lists them
AllFormats == <<1, 2, 3>>

\* ---------------------------------------------------------- filter catalog
(* The filter types a caller can instantiate.  Each has its pads (one media *)
(* type per pad) and its query_formats callback: absent (custom = FALSE,    *)
(* the default is used) or one that puts its own list on each pad.          *)
UserTypes ==
    {"vsrc", "vsrc12", "vsink", "vsink23", "vnullsink", "vpass", "vnull", "vconv", "aconv",
     "oconv"}

Descriptor(t) ==
    CASE t = "vsrc"   -> [inputs |-> <<>>, outputs |-> <<"video">>, custom |-> TRUE,
                          accepts |-> <<>>, offers |-> << <<1>> >>]
      [] t = "vsrc12" -> [inputs |-> <<>>, outputs |-> <<"video", "video">>, custom |-> TRUE,
                          accepts |-> <<>>, offers |-> << <<1>>, <<2>> >>]
      [] t = "vsink"  -> [inputs |-> <<"video">>, outputs |-> <<>>, custom |-> TRUE,
                          accepts |-> << <<2>> >>, offers |-> <<>>]
      [] t = "vsink23" -> [inputs |-> <<"video", "video">>, outputs |-> <<>>, custom |-> TRUE,
                          accepts |-> << <<2>>, <<3>> >>, offers |-> <<>>]
      [] t = "vnullsink" -> [inputs |-> <<"video">>, outputs |-> <<>>, custom |-> FALSE,
                          accepts |-> <<>>, offers |-> <<>>]
      [] t = "vpass"  -> [inputs |-> <<"video">>, outputs |-> <<"video">>, custom |-> TRUE,
                          accepts |-> << <<1, 2>> >>, offers |-> << <<2, 1>> >>]
      [] t = "vnull"  -> [inputs |-> <<"video">>, outputs |-> <<"video">>, custom |-> FALSE,
                          accepts |-> <<>>, offers |-> <<>>]
      [] t = "vconv"  -> [inputs |-> <<"video">>, outputs |-> <<"video">>, custom |-> TRUE,
                          accepts |-> << <<2>> >>, offers |-> << <<1>> >>]
      [] t = "aconv"  -> [inputs |-> <<"audio">>, outputs |-> <<"audio">>, custom |-> TRUE,
                          accepts |-> << <<2>> >>, offers |-> << <<1>> >>]
      [] t = "oconv"  -> [inputs |-> <<"data">>, outputs |-> <<"data">>, custom |-> TRUE,
                          accepts |-> << <<2>> >>, offers |-> << <<1>> >>]
      [] t = "scale"  -> [inputs |-> <<"video">>, outputs |-> <<"video">>, custom |-> TRUE,
                          accepts |-> << <<1, 2>> >>, offers |-> << <<1, 2>> >>]
      [] t = "resample" -> [inputs |-> <<"audio">>, outputs |-> <<"audio">>, custom |-> TRUE,
                          accepts |-> << <<1, 2>> >>, offers |-> << <<1, 2>> >>]

\* what avfilter_get_by_name has answered for a name: not asked yet, found, NULL
Unasked == "unasked"
Found == "found"
Missing == "missing"

\* the results a filter's init callback, and an allocation, can have
CreateOutcomes == {"ok", "open_nomem", "init_error", "add_nomem"}

VARIABLES
    graph,            \* TRUE while *graph is an allocated AVFilterGraph, FALSE once NULL
    filters,          \* graph->filters[0 .. filter_count-1]: the nodes, in insertion order
    links,            \* the AVFilterLinks, by id
    fsets,            \* the heap of AVFilterFormats: formats[] and format_count
    queried,          \* per link, the list each side was given when its formats were queried
    registry,         \* per converter type, what avfilter_get_by_name answers in this run
    pc,               \* where avfilter_graph_config is: idle (not called), query, merge, ..., done
    i, j,             \* the loop counters of the running phase (1-based)
    scaler_count, resampler_count,
    ret,              \* the value avfilter_graph_config returned
    site,             \* the place avfilter_graph_config returned from
    phases,           \* the phases avfilter_graph_config has entered, in order
    qcalls,           \* the nodes whose query_formats callback ran, in order
    cfgcalls,         \* the nodes avfilter_config_links was called on, in order
    passes,           \* the passes of reduce_formats's do-while loop so far
    errlog,           \* the last av_log(AV_LOG_ERROR) record
    last,             \* what the caller's last call returned
    destroyed,        \* the nodes avfilter_graph_free handed to avfilter_free, in order
    freeCalls         \* calls of avfilter_graph_free so far

vars == <<graph, filters, links, fsets, queried, registry, pc, i, j, scaler_count,
          resampler_count, ret, site, phases, qcalls, cfgcalls, passes, errlog, last,
          destroyed, freeCalls>>

cfgvars == <<registry, pc, i, j, scaler_count, resampler_count, ret, site, phases, qcalls,
             cfgcalls, passes, errlog>>

\* ----------------------------------------------------------------- helpers
Range(s) == {s[k] : k \in DOMAIN s}

RECURSIVE Reverse(_)
Reverse(s) == IF s = <<>> THEN <<>> ELSE Append(Reverse(Tail(s)), Head(s))

RECURSIVE NumDigits(_)
NumDigits(n) == IF n < 10 THEN 1 ELSE 1 + NumDigits(n \div 10)

RECURSIVE Pow10(_)
Pow10(n) == IF n = 0 THEN 1 ELSE 10 * Pow10(n - 1)

\* a variant of the naming that counts before it names (++count for count++)
InstNameFromOne(prefix, prefixLen, n) == <<prefix, n + 1>>

(* snprintf(inst_name, sizeof(inst_name), "<prefix> %d", n): the name is    *)
(* the prefix and the decimal digits of n, cut to sizeof(inst_name) - 1     *)
(* characters.  A name is <<prefix, number read from the digits kept>>.     *)
InstName(prefix, prefixLen, n) ==
    LET room == (InstNameSize - 1) - prefixLen
        cut  == IF NumDigits(n) > room THEN NumDigits(n) - room ELSE 0
    IN  <<prefix, n \div Pow10(cut)>>

ScalerPrefix == "auto-inserted scaler "
ResamplerPrefix == "auto-inserted resampler "

NoLog == [msg |-> "", node |-> NoNode, pad |-> 0, a |-> NoName, b |-> NoName]
NoCall == [op |-> "", ret |-> 0, handle |-> NoNode, opened |-> FALSE, freed |-> FALSE,
           outcome |-> ""]

\* ------------------------------------------------------------------- state
TypeOK ==
    /\ graph \in BOOLEAN
    /\ pc \in {"idle", "query", "merge", "reduce", "pick", "links", "done", "freed"}
    /\ Len(filters) <= 3 * MaxFilters + 1

Init ==
    /\ graph = TRUE
    /\ filters = <<>>
    /\ links = <<>>
    /\ fsets = <<>>
    /\ queried = <<>>
    /\ registry = [scale |-> Unasked, resample |-> Unasked]
    /\ pc = "idle"
    /\ i = 0
    /\ j = 0
    /\ scaler_count = 0
    /\ resampler_count = 0
    /\ ret = 0
    /\ site = ""
    /\ phases = <<>>
    /\ qcalls = <<>>
    /\ cfgcalls = <<>>
    /\ passes = 0
    /\ errlog = NoLog
    /\ last = NoCall
    /\ destroyed = <<>>
    /\ freeCalls = 0

\* ------------------------------------------------------- graph container
(* avfilter_open (libavfilter/avfilter.c): a node of the type with every    *)
(* pad unbound.                                                             *)
NewNode(t, name) ==
    [filter  |-> t,
     name    |-> name,
     inputs  |-> [k \in DOMAIN Descriptor(t).inputs |-> NoLink],
     outputs |-> [k \in DOMAIN Descriptor(t).outputs |-> NoLink]]

\* a variant of avfilter_graph_add_filter that stores the node before it checks av_realloc
AddFilterThenCheck(fs, node, realloc_ok) ==
    [ret |-> IF realloc_ok THEN 0 ELSE AVERROR(ENOMEM), filters |-> Append(fs, node)]

(* avfilter_graph_add_filter: with the array grown, the node is stored at   *)
(* filters[filter_count++]; when av_realloc fails nothing is changed.       *)
AddFilter(fs, node, realloc_ok) ==
    IF realloc_ok
    THEN [ret |-> 0, filters |-> Append(fs, node)]
    ELSE [ret |-> AVERROR(ENOMEM), filters |-> fs]

(* avfilter_graph_create_filter: open, init, add; at the first step that    *)
(* fails, the node (when there is one) is freed and *filt_ctx is cleared.   *)
(* `known` is FALSE for a NULL AVFilter (a type the registry lacks).        *)
(* The result: the value returned, the graph's nodes, *filt_ctx, whether a  *)
(* node was opened and whether it was handed to avfilter_free.              *)
GraphCreateFilter(fs, t, name, known, outcome) ==
    IF ~known
    THEN [ret |-> AVERROR(EINVAL), filters |-> fs, handle |-> NoNode,
          opened |-> FALSE, freed |-> FALSE]
    ELSE IF outcome = "open_nomem"
    THEN [ret |-> AVERROR(ENOMEM), filters |-> fs, handle |-> NoNode,
          opened |-> FALSE, freed |-> FALSE]
    ELSE IF outcome = "init_error"
    THEN [ret |-> NodeError, filters |-> fs, handle |-> NoNode,
          opened |-> TRUE, freed |-> TRUE]
    ELSE LET add == AddFilter(fs, NewNode(t, name), outcome # "add_nomem")
         IN  IF add.ret < 0
             THEN [ret |-> add.ret, filters |-> add.filters, handle |-> NoNode,
                   opened |-> TRUE, freed |-> TRUE]
             ELSE [ret |-> 0, filters |-> add.filters, handle |-> Len(add.filters),
                   opened |-> TRUE, freed |-> FALSE]

\* the caller creates a node of a catalog type
CreateFilter(t, outcome) ==
    /\ graph
    /\ pc = "idle"
    /\ Len(filters) < MaxFilters
    /\ LET r == GraphCreateFilter(filters, t, <<t, 0>>, TRUE, outcome)
       IN  /\ filters' = r.filters
           /\ last' = [op |-> "create", ret |-> r.ret, handle |-> r.handle,
                       opened |-> r.opened, freed |-> r.freed, outcome |-> outcome]
    /\ UNCHANGED <<graph, links, fsets, queried, cfgvars, destroyed, freeCalls>>

(* avfilter_link (libavfilter/avfilter.c): a new link from output pad sp of *)
(* node s to input pad dp of node d; both pads free and of one media type.  *)
NewLink(s, sp, d, dp, kind) ==
    [src |-> s, srcpad |-> sp, dst |-> d, dstpad |-> dp, type |-> kind,
     in_formats |-> NoSet, out_formats |-> NoSet, format |-> NoFormat,
     init_state |-> "uninit"]

Link(s, sp, d, dp) ==
    /\ graph
    /\ pc = "idle"
    /\ s \in DOMAIN filters /\ d \in DOMAIN filters
    /\ sp \in DOMAIN filters[s].outputs /\ dp \in DOMAIN filters[d].inputs
    /\ filters[s].outputs[sp] = NoLink
    /\ filters[d].inputs[dp] = NoLink
    /\ Descriptor(filters[s].filter).outputs[sp] = Descriptor(filters[d].filter).inputs[dp]
    /\ LET id == <<s, sp>>
           f1 == [filters EXCEPT ![s].outputs[sp] = id]
       IN  /\ filters' = [f1 EXCEPT ![d].inputs[dp] = id]
           /\ links' = (id :> NewLink(s, sp, d, dp, Descriptor(filters[s].filter).outputs[sp])) @@ links
           /\ queried' = (id :> [src |-> <<>>, dst |-> <<>>]) @@ queried
    /\ last' = [NoCall EXCEPT !.op = "link"]
    /\ UNCHANGED <<graph, fsets, cfgvars, destroyed, freeCalls>>

\* a variant of avfilter_graph_free's loop that frees from filters[0] upwards
FreeOrderForward(fs, n) ==
    [k \in 1..n |-> [node |-> k, filter |-> fs[k].filter]]

\* the nodes avfilter_graph_free frees, in the order it frees them:
\* filters[filter_count - 1] while filter_count > 0
RECURSIVE FreeOrder(_, _)
FreeOrder(fs, n) ==
    IF n <= 0 THEN <<>>
    ELSE << [node |-> n, filter |-> fs[n].filter] >> \o FreeOrder(fs, n - 1)

(* avfilter_graph_free: nothing on a NULL handle; else every node is freed, *)
(* then the array and the graph, and the handle is set to NULL.             *)
GraphFree ==
    /\ freeCalls < MaxFreeCalls
    /\ pc \in {"idle", "done", "freed"}
    /\ freeCalls' = freeCalls + 1
    /\ IF ~graph
       THEN UNCHANGED <<graph, filters, links, fsets, queried, cfgvars, last, destroyed>>
       ELSE /\ graph' = FALSE
            /\ destroyed' = destroyed \o FreeOrder(filters, Len(filters))
            /\ filters' = <<>>
            /\ links' = <<>>
            /\ fsets' = <<>>
            /\ queried' = <<>>
            /\ pc' = "freed"
            /\ last' = [NoCall EXCEPT !.op = "free"]
            /\ UNCHANGED <<registry, i, j, scaler_count, resampler_count, ret, site, phases,
                           qcalls, cfgcalls, passes, errlog>>

\* ---------------------------------------------------------------- validity
(* ff_avfilter_graph_check_validity: the nodes in order; of each, the input *)
(* pads in index order, then the output pads; the first pad with no link,   *)
(* or a link with no peer, is logged and EINVAL returned.  FirstUnmet* give *)
(* the pad where the scan returns: 0 when the loop runs to its end.         *)
RECURSIVE FirstUnmetInput(_, _, _)
FirstUnmetInput(node, ls, k) ==
    IF k > Len(node.inputs) THEN 0
    ELSE IF node.inputs[k] = NoLink \/ ls[node.inputs[k]].src = NoNode THEN k
    ELSE FirstUnmetInput(node, ls, k + 1)

RECURSIVE FirstUnmetOutput(_, _, _)
FirstUnmetOutput(node, ls, k) ==
    IF k > Len(node.outputs) THEN 0
    ELSE IF node.outputs[k] = NoLink \/ ls[node.outputs[k]].dst = NoNode THEN k
    ELSE FirstUnmetOutput(node, ls, k + 1)

\* a variant of ff_avfilter_graph_check_validity that scans a node's output pads first
RECURSIVE CheckValidityOutputsFirst(_, _, _)
CheckValidityOutputsFirst(fs, ls, n) ==
    IF n > Len(fs) THEN [ret |-> 0, log |-> NoLog]
    ELSE IF FirstUnmetOutput(fs[n], ls, 1) # 0
    THEN [ret |-> UnconnectedError,
          log |-> [msg |-> "output pad not connected", node |-> n,
                   pad |-> FirstUnmetOutput(fs[n], ls, 1),
                   a |-> fs[n].name, b |-> <<fs[n].filter, 0>>]]
    ELSE IF FirstUnmetInput(fs[n], ls, 1) # 0
    THEN [ret |-> UnconnectedError,
          log |-> [msg |-> "input pad not connected", node |-> n,
                   pad |-> FirstUnmetInput(fs[n], ls, 1),
                   a |-> fs[n].name, b |-> <<fs[n].filter, 0>>]]
    ELSE CheckValidityOutputsFirst(fs, ls, n + 1)

RECURSIVE CheckValidityFrom(_, _, _)
CheckValidityFrom(fs, ls, n) ==
    IF n > Len(fs) THEN [ret |-> 0, log |-> NoLog]
    ELSE LET inp == FirstUnmetInput(fs[n], ls, 1)
             out == FirstUnmetOutput(fs[n], ls, 1)
         IN  IF inp # 0
             THEN [ret |-> UnconnectedError,
                   log |-> [msg |-> "input pad not connected", node |-> n, pad |-> inp,
                            a |-> fs[n].name, b |-> <<fs[n].filter, 0>>]]
             ELSE IF out # 0
             THEN [ret |-> UnconnectedError,
                   log |-> [msg |-> "output pad not connected", node |-> n, pad |-> out,
                            a |-> fs[n].name, b |-> <<fs[n].filter, 0>>]]
             ELSE CheckValidityFrom(fs, ls, n + 1)

GraphCheckValidity(fs, ls) == CheckValidityFrom(fs, ls, 1)

\* ------------------------------------------------------------ format lists
(* The graph's memory while formats are negotiated: the nodes, the links,   *)
(* the heap of format lists and what was queried.                           *)
Heap == [filters |-> filters, links |-> links, fsets |-> fsets, queried |-> queried]

NewSet(list) == [formats |-> list, format_count |-> Len(list)]

\* the candidates of a list: formats[0 .. format_count-1]
Cands(fset) == SubSeq(fset.formats, 1, fset.format_count)

(* avfilter_formats_ref (libavfilter/formats.c): the link's in_formats or   *)
(* out_formats is made to point to the list.                                *)
FormatsRef(h, l, side, id) ==
    IF side = "in"
    THEN [h EXCEPT !.links[l].in_formats = id, !.queried[l].src = Cands(h.fsets[id])]
    ELSE [h EXCEPT !.links[l].out_formats = id, !.queried[l].dst = Cands(h.fsets[id])]

(* The references a node's query_formats sets: out_formats of every link    *)
(* on an input pad, in_formats of every link on an output pad.              *)
RECURSIVE PadRefs(_, _, _, _)
PadRefs(pads, lists, side, k) ==
    IF k > Len(pads) THEN <<>>
    ELSE (IF pads[k] = NoLink THEN <<>>
          ELSE << [link |-> pads[k], side |-> side, list |-> lists[k]] >>)
         \o PadRefs(pads, lists, side, k + 1)

\* a callback of the filter's own: a list of its own on every pad
RECURSIVE RefOwn(_, _)
RefOwn(h, refs) ==
    IF refs = <<>> THEN h
    ELSE LET h1 == [h EXCEPT !.fsets = Append(@, NewSet(Head(refs).list))]
         IN  RefOwn(FormatsRef(h1, Head(refs).link, Head(refs).side, Len(h1.fsets)), Tail(refs))

\* avfilter_set_common_formats (libavfilter/formats.c): one list for every pad
RECURSIVE RefCommon(_, _, _)
RefCommon(h, refs, id) ==
    IF refs = <<>> THEN h
    ELSE RefCommon(FormatsRef(h, Head(refs).link, Head(refs).side, id), Tail(refs), id)

(* filter->query_formats(ctx), or avfilter_default_query_formats(ctx) for a *)
(* filter without the callback: every format of the media type, in one list *)
(* shared by all the node's pads.                                           *)
NodeQueryFormats(h, n) ==
    LET node == h.filters[n]
        d    == Descriptor(node.filter)
        all  == [k \in 1..2 |-> AllFormats]
    IN  IF d.custom
        THEN RefOwn(h, PadRefs(node.inputs, d.accepts, "out", 1)
                       \o PadRefs(node.outputs, d.offers, "in", 1))
        ELSE LET h1 == [h EXCEPT !.fsets = Append(@, NewSet(AllFormats))]
             IN  RefCommon(h1, PadRefs(node.inputs, all, "out", 1)
                               \o PadRefs(node.outputs, all, "in", 1), Len(h1.fsets))

\* query_formats, first loop: every node of the graph is asked for its formats
RECURSIVE QueryAll(_, _)
QueryAll(h, n) ==
    IF n > Len(h.filters) THEN h ELSE QueryAll(NodeQueryFormats(h, n), n + 1)

(* avfilter_merge_formats (libavfilter/formats.c): the formats of a that b  *)
(* holds too, in a's order; NULL when there is none.  Else the result is a  *)
(* new list, every reference to a or to b now points to it, and a and b are *)
(* freed.                                                                   *)
Intersection(a, b) == SelectSeq(Cands(a), LAMBDA x : x \in Range(Cands(b)))

MergeFormats(h, a, b) ==
    LET common == Intersection(h.fsets[a], h.fsets[b])
        id     == Len(h.fsets) + 1
        moved(s) == IF s \in {a, b} THEN id ELSE s
    IN  IF common = <<>>
        THEN [ok |-> FALSE, heap |-> h]
        ELSE [ok |-> TRUE,
              heap |-> [h EXCEPT !.fsets = Append(@, NewSet(common)),
                                 !.links = [l \in DOMAIN @ |->
                                              [@[l] EXCEPT !.in_formats = moved(@),
                                                           !.out_formats = moved(@)]]]]

(* avfilter_insert_filter(link, filt, 0, 0) (libavfilter/avfilter.c): a new *)
(* link from filt's output pad to the link's destination pad; the link now  *)
(* ends at filt's input pad; the link's out_formats reference moves to the  *)
(* new link.                                                                *)
InsertFilter(h, l, c) ==
    LET old == h.links[l]
        id  == <<c, 1>>
        new == [NewLink(c, 1, old.dst, old.dstpad,
                        Descriptor(h.filters[c].filter).outputs[1])
                  EXCEPT !.out_formats = old.out_formats]
        f1  == [h.filters EXCEPT ![old.dst].inputs[old.dstpad] = id]
        f2  == [f1 EXCEPT ![c].outputs[1] = id]
        f3  == [f2 EXCEPT ![c].inputs[1] = l]
    IN  [h EXCEPT !.filters = f3,
                  !.links = (id :> new) @@
                            [@ EXCEPT ![l].dst = c, ![l].dstpad = 1, ![l].out_formats = NoSet],
                  !.queried = (id :> [src |-> <<>>, dst |-> @[l].dst]) @@
                              [@ EXCEPT ![l].dst = <<>>]]

\* ------------------------------------------------------- avfilter_graph_config
(* The end of avfilter_graph_config: a phase returned r, which is not 0.    *)
ConfigReturns(r, where) ==
    /\ ret' = r
    /\ site' = where
    /\ pc' = "done"

\* a variant of avfilter_graph_config that goes on to the formats whatever the check said
GraphConfigGoesOn ==
    /\ graph
    /\ pc = "idle"
    /\ pc' = "query"
    /\ phases' = <<"validity", "formats">>
    /\ last' = [NoCall EXCEPT !.op = "config"]
    /\ UNCHANGED <<graph, filters, links, fsets, queried, registry, i, j, scaler_count,
                   resampler_count, ret, site, errlog, qcalls, cfgcalls, passes, destroyed,
                   freeCalls>>

(* avfilter_graph_config is called: ff_avfilter_graph_check_validity runs;  *)
(* its error is returned, else ff_avfilter_graph_config_formats is entered. *)
GraphConfig ==
    /\ graph
    /\ pc = "idle"
    /\ LET v == GraphCheckValidity(filters, links)
       IN  IF v.ret # 0
           THEN /\ ConfigReturns(v.ret, "unconnected")
                /\ errlog' = v.log
                /\ phases' = <<"validity">>
           ELSE /\ pc' = "query"
                /\ phases' = <<"validity", "formats">>
                /\ UNCHANGED <<ret, site, errlog>>
    /\ last' = [NoCall EXCEPT !.op = "config"]
    /\ UNCHANGED <<graph, filters, links, fsets, queried, registry, i, j, scaler_count,
                   resampler_count, qcalls, cfgcalls, passes, destroyed, freeCalls>>

\* query_formats, lines 154-163: the counters start at 0, every node is queried
QueryFormats ==
    /\ pc = "query"
    /\ scaler_count' = 0
    /\ resampler_count' = 0
    /\ LET h == QueryAll(Heap, 1)
       IN  /\ links' = h.links
           /\ fsets' = h.fsets
           /\ queried' = h.queried
    /\ qcalls' = qcalls \o [n \in 1..Len(filters) |-> n]
    /\ pc' = "merge"
    /\ i' = 1
    /\ j' = 1
    /\ UNCHANGED <<graph, filters, registry, ret, site, phases, cfgcalls, passes, errlog,
                   last, destroyed, freeCalls>>

\* query_formats, the merge loop: node i has no input pad left, on to node i+1
MergeNextFilter ==
    /\ pc = "merge"
    /\ i <= Len(filters)
    /\ j > Len(filters[i].inputs)
    /\ i' = i + 1
    /\ j' = 1
    /\ UNCHANGED <<graph, filters, links, fsets, queried, registry, pc, scaler_count,
                   resampler_count, ret, site, phases, qcalls, cfgcalls, passes, errlog, last,
                   destroyed, freeCalls>>

\* query_formats returns 0: ff_avfilter_graph_config_formats goes on to reduce_formats
MergeDone ==
    /\ pc = "merge"
    /\ i > Len(filters)
    /\ pc' = "reduce"
    /\ UNCHANGED <<graph, filters, links, fsets, queried, registry, i, j, scaler_count,
                   resampler_count, ret, site, phases, qcalls, cfgcalls, passes, errlog, last,
                   destroyed, freeCalls>>

\* a variant of lines 216-222 that goes on when the converter's links cannot be merged
ConvertFailureIgnored(h, l, c) == [ret |-> 0, heap |-> h, log |-> NoLog, conv |-> c]

(* query_formats, lines 180-222: the lists of link l have no common format. *)
(* A converter of type t is created under the name given, spliced into the  *)
(* link and queried; the two links around it are merged.  The result: the   *)
(* value query_formats returns here (0: it goes on), the memory, what was   *)
(* logged (NoLog: nothing) and the converter queried (NoNode: none).        *)
ConvertFailed(h, l, c) ==
    [ret |-> UnmergeableError, heap |-> h,
     log |-> [msg |-> "impossible to convert", node |-> NoNode, pad |-> 0,
              a |-> h.filters[h.links[l].src].name,
              b |-> h.filters[h.links[l].dst].name],
     conv |-> c]

\* line 217: the converter's output link was merged, or could not be
AfterMergeOut(m, l, c) ==
    IF ~m.ok THEN ConvertFailed(m.heap, l, c)
    ELSE [ret |-> 0, heap |-> m.heap, log |-> NoLog, conv |-> c]

\* line 216: the converter's input link was merged, or could not be
AfterMergeIn(m, l, c) ==
    IF ~m.ok THEN ConvertFailed(m.heap, l, c)
    ELSE AfterMergeOut(MergeFormats(m.heap,
                                    m.heap.links[m.heap.filters[c].outputs[1]].in_formats,
                                    m.heap.links[m.heap.filters[c].outputs[1]].out_formats),
                       l, c)

(* a variant of lines 213-217 that leaves the converter's two links to the  *)
(* merge loop instead of merging them where the converter is inserted       *)
AfterQueryLeavesLinks(h, l, c) == [ret |-> 0, heap |-> h, log |-> NoLog, conv |-> c]

\* lines 213-217: the converter has been queried
AfterQuery(h, l, c) ==
    AfterMergeIn(MergeFormats(h, h.links[h.filters[c].inputs[1]].in_formats,
                                 h.links[h.filters[c].inputs[1]].out_formats), l, c)

\* lines 186-213, r being what avfilter_graph_create_filter gave
AfterCreate(h, l, r) ==
    IF r.ret < 0
    THEN [ret |-> r.ret, heap |-> h, log |-> NoLog, conv |-> NoNode]
    ELSE AfterQuery(NodeQueryFormats(InsertFilter([h EXCEPT !.filters = r.filters], l, r.handle),
                                     r.handle),
                    l, r.handle)

\* a variant of lines 186-203 that creates a "resample" whatever the link's media type
AutoInsertResample(h, l, t, name, known, outcome) ==
    AfterCreate(h, l, GraphCreateFilter(h.filters, "resample", name, known, outcome))

AutoInsert(h, l, t, name, known, outcome) ==
    AfterCreate(h, l, GraphCreateFilter(h.filters, t, name, known, outcome))

\* what avfilter_get_by_name answers for the name, once it is `found`
Lookup(name, found) ==
    /\ registry[name] \in {Unasked, IF found THEN Found ELSE Missing}
    /\ registry' = [registry EXCEPT ![name] = IF found THEN Found ELSE Missing]

\* the merge loop goes on to the next input pad with the memory as h
MergeGoesOn(h) ==
    /\ filters' = h.filters
    /\ links' = h.links
    /\ fsets' = h.fsets
    /\ queried' = h.queried
    /\ j' = j + 1
    /\ UNCHANGED <<pc, ret, site>>

\* the merge loop after the converter was inserted, or could not be
Inserted(a) ==
    /\ qcalls' = IF a.conv = NoNode THEN qcalls ELSE Append(qcalls, a.conv)
    /\ errlog' = IF a.log = NoLog THEN errlog ELSE a.log
    /\ IF a.ret < 0
       THEN /\ ConfigReturns(a.ret, IF a.conv = NoNode THEN "create" ELSE "unmergeable")
            /\ filters' = a.heap.filters
            /\ links' = a.heap.links
            /\ fsets' = a.heap.fsets
            /\ queried' = a.heap.queried
            /\ j' = j
       ELSE MergeGoesOn(a.heap)

\* lines 171-173: the link's two lists were merged into one, or could not be
Merged(m, l, outcome, found) ==
    IF m.ok
    THEN /\ outcome = "ok" /\ found
         /\ MergeGoesOn(m.heap)
         /\ UNCHANGED <<registry, scaler_count, resampler_count, qcalls, errlog>>
    ELSE IF links[l].type = "video"
    THEN /\ Lookup("scale", found)
         /\ found \/ outcome = "ok"
         /\ scaler_count' = scaler_count + 1
         /\ Inserted(AutoInsert(Heap, l, "scale",
                                InstName(ScalerPrefix, Len(ScalerPrefix), scaler_count),
                                found, outcome))
         /\ UNCHANGED resampler_count
    ELSE IF links[l].type = "audio"
    THEN /\ Lookup("resample", found)
         /\ found \/ outcome = "ok"
         /\ IF ~found
            THEN /\ ConfigReturns(MissingConverterError, "no resample")
                 /\ errlog' = [NoLog EXCEPT !.msg = "'resample' filter not present"]
                 /\ j' = j
                 /\ UNCHANGED <<filters, links, fsets, queried, resampler_count, qcalls>>
            ELSE /\ resampler_count' = resampler_count + 1
                 /\ Inserted(AutoInsert(Heap, l, "resample",
                                        InstName(ResamplerPrefix, Len(ResamplerPrefix),
                                                 resampler_count),
                                        TRUE, outcome))
         /\ UNCHANGED scaler_count
    ELSE /\ outcome = "ok" /\ found
         /\ ConfigReturns(UnknownKindError, "unknown kind")
         /\ j' = j
         /\ UNCHANGED <<filters, links, fsets, queried, registry, scaler_count,
                        resampler_count, qcalls, errlog>>

\* a variant of line 171 that merges the two lists even when they are the same object
SkippedOnlyNull(l) == l = NoLink

\* line 171: a NULL link, or one whose two lists are the same object, is passed over
Skipped(l) == l = NoLink \/ links[l].in_formats = links[l].out_formats

(* query_formats, the body of the merge loop for input pad j of node i.     *)
(* `found` is whether the converter type is registered, `outcome` what      *)
(* creating the converter runs into.                                        *)
MergeLink(outcome, found) ==
    /\ pc = "merge"
    /\ i <= Len(filters)
    /\ j <= Len(filters[i].inputs)
    /\ IF Skipped(filters[i].inputs[j])
       THEN /\ outcome = "ok" /\ found
            /\ j' = j + 1
            /\ UNCHANGED <<filters, links, fsets, queried, registry, pc, scaler_count,
                           resampler_count, ret, site, qcalls, errlog>>
       ELSE Merged(MergeFormats(Heap, links[filters[i].inputs[j]].in_formats,
                                links[filters[i].inputs[j]].out_formats),
                   filters[i].inputs[j], outcome, found)
    /\ UNCHANGED <<graph, i, phases, cfgcalls, passes, last, destroyed, freeCalls>>

\* ------------------------------------------------------------------ reduce
(* reduce_formats_on_filter, the loop over the output pads for one input    *)
(* link pinned to `format`: an output link of the same media type whose     *)
(* list has several formats, `format` among them, is cut down to it.        *)
(* a variant of lines 262-268 that, having found the format in the list,    *)
(* sets format_count to 1 without storing the format in formats[0]          *)
RECURSIVE ReduceOutputsKeepsFirst(_, _, _, _, _, _)
ReduceOutputsKeepsFirst(node, ls, fs, format, kind, k) ==
    IF k > Len(node.outputs) THEN [fsets |-> fs, ret |-> 0]
    ELSE IF /\ kind = ls[node.outputs[k]].type
            /\ fs[ls[node.outputs[k]].in_formats].format_count # 1
            /\ format \in Range(Cands(fs[ls[node.outputs[k]].in_formats]))
    THEN [fsets |-> ReduceOutputsKeepsFirst(
                       node, ls,
                       [fs EXCEPT ![ls[node.outputs[k]].in_formats].format_count = 1],
                       format, kind, k + 1).fsets,
          ret |-> 1]
    ELSE ReduceOutputsKeepsFirst(node, ls, fs, format, kind, k + 1)

RECURSIVE ReduceOutputs(_, _, _, _, _, _)
ReduceOutputs(node, ls, fs, format, kind, k) ==
    IF k > Len(node.outputs) THEN [fsets |-> fs, ret |-> 0]
    ELSE LET out_link == ls[node.outputs[k]]
             id == out_link.in_formats
             hit == /\ kind = out_link.type
                    /\ fs[id].format_count # 1
                    /\ format \in Range(Cands(fs[id]))
             fs1 == IF hit THEN [fs EXCEPT ![id].formats[1] = format, ![id].format_count = 1]
                    ELSE fs
             rest == ReduceOutputs(node, ls, fs1, format, kind, k + 1)
         IN  [fsets |-> rest.fsets, ret |-> IF hit THEN 1 ELSE rest.ret]

RECURSIVE ReduceInputs(_, _, _, _)
ReduceInputs(node, ls, fs, k) ==
    IF k > Len(node.inputs) THEN [fsets |-> fs, ret |-> 0]
    ELSE LET link == ls[node.inputs[k]]
             format == fs[link.out_formats].formats[1]
             r == IF fs[link.out_formats].format_count # 1
                  THEN [fsets |-> fs, ret |-> 0]
                  ELSE ReduceOutputs(node, ls, fs, format, link.type, 1)
             rest == ReduceInputs(node, ls, r.fsets, k + 1)
         IN  [fsets |-> rest.fsets, ret |-> IF r.ret = 1 THEN 1 ELSE rest.ret]

\* reduce_formats_on_filter: 1 when a list was cut down, else 0
ReduceFormatsOnFilter(node, ls, fs) == ReduceInputs(node, ls, fs, 1)

\* reduce_formats, one pass of the do-while loop: reduced |= ... over every node
RECURSIVE ReducePassFrom(_, _, _, _)
ReducePassFrom(fl, ls, fs, n) ==
    IF n > Len(fl) THEN [fsets |-> fs, reduced |-> 0]
    ELSE LET r == ReduceFormatsOnFilter(fl[n], ls, fs)
             rest == ReducePassFrom(fl, ls, r.fsets, n + 1)
         IN  [fsets |-> rest.fsets, reduced |-> IF r.ret = 1 THEN 1 ELSE rest.reduced]

\* a variant of the do-while loop whose condition never turns false
ReduceForEver(reduced) == TRUE

\* the loop goes round again while a pass reduced something
ReduceAgain(reduced) == reduced # 0

ReducePass ==
    /\ pc = "reduce"
    /\ LET r == ReducePassFrom(filters, links, fsets, 1)
       IN  /\ fsets' = r.fsets
           /\ pc' = IF ReduceAgain(r.reduced) THEN "reduce" ELSE "pick"
    /\ passes' = passes + 1
    /\ UNCHANGED <<graph, filters, links, queried, registry, i, j, scaler_count,
                   resampler_count, ret, site, phases, qcalls, cfgcalls, errlog, last,
                   destroyed, freeCalls>>

\* -------------------------------------------------------------------- pick
\* a variant of line 237 that takes the first format of the media type
PickedDefault(fset) == AllFormats[1]

\* a variant of line 237 that takes the last format of the list
PickedLast(fset) == fset.formats[fset.format_count]

\* line 237: link->format = link->in_formats->formats[0]
PickedFormat(fset) == fset.formats[1]

\* a variant of pick_format that drops the in_formats reference only
PickFormatKeepsOut(h, l) ==
    IF l = NoLink \/ h.links[l].in_formats = NoSet THEN h
    ELSE [h EXCEPT !.fsets[h.links[l].in_formats].format_count = 1,
                   !.links[l].format = PickedFormat(h.fsets[h.links[l].in_formats]),
                   !.links[l].in_formats = NoSet]

(* pick_format: nothing for a NULL link or one without in_formats; else the *)
(* list is cut to its first format, which becomes the link's format, and    *)
(* both references are dropped (avfilter_formats_unref, formats.c).         *)
PickFormat(h, l) ==
    IF l = NoLink \/ h.links[l].in_formats = NoSet THEN h
    ELSE LET id == h.links[l].in_formats
         IN  [h EXCEPT !.fsets[id].format_count = 1,
                       !.links[l].format = PickedFormat(h.fsets[id]),
                       !.links[l].in_formats = NoSet,
                       !.links[l].out_formats = NoSet]

RECURSIVE PickEach(_, _)
PickEach(h, ls) == IF ls = <<>> THEN h ELSE PickEach(PickFormat(h, Head(ls)), Tail(ls))

\* pick_formats: of every node, the links of the input pads, then of the output pads
RECURSIVE PickOrder(_, _)
PickOrder(fl, n) ==
    IF n > Len(fl) THEN <<>> ELSE fl[n].inputs \o fl[n].outputs \o PickOrder(fl, n + 1)

\* the end of ff_avfilter_graph_config_formats; ff_avfilter_graph_config_links is entered
PickFormats ==
    /\ pc = "pick"
    /\ LET h == PickEach(Heap, PickOrder(filters, 1))
       IN  /\ links' = h.links
           /\ fsets' = h.fsets
    /\ pc' = "links"
    /\ phases' = Append(phases, "links")
    /\ i' = 1
    /\ UNCHANGED <<graph, filters, queried, registry, j, scaler_count, resampler_count, ret, site,
                   qcalls, cfgcalls, passes, errlog, last, destroyed, freeCalls>>

\* ------------------------------------------------------------ config links
\* the nodes of S and every node a chain of links leads from to a node of S
RECURSIVE Upstream(_, _, _)
Upstream(fs, ls, S) ==
    IF {ls[l].src : l \in UNION {Range(fs[n].inputs) : n \in S}} \subseteq S THEN S
    ELSE Upstream(fs, ls, S \cup {ls[l].src : l \in UNION {Range(fs[n].inputs) : n \in S}})

(* avfilter_config_links(filt) (libavfilter/avfilter.c): the links of the   *)
(* chains that lead to node n are configured, those nearest the sources     *)
(* first, the input links of n last.  When it fails (r # 0) it has stopped  *)
(* at the first link (early) or at the input links of n; what it configured *)
(* before stays configured.                                                 *)
ConfigLinks(fs, ls, n, r, early) ==
    [l \in DOMAIN ls |->
        IF /\ ls[l].dst \in Upstream(fs, ls, {n})
           /\ r = 0 \/ (~early /\ ls[l].dst # n)
        THEN [ls[l] EXCEPT !.init_state = "init"]
        ELSE ls[l]]

\* a variant of line 132 that calls avfilter_config_links on the nodes with output pads too
ConfigLinksNoSkip ==
    /\ pc = "links"
    /\ i <= Len(filters)
    /\ Len(filters[i].outputs) # 0
    /\ cfgcalls' = Append(cfgcalls, i)
    /\ links' = ConfigLinks(filters, links, i, 0, FALSE)
    /\ i' = i + 1
    /\ UNCHANGED <<graph, filters, fsets, queried, registry, pc, j, scaler_count,
                   resampler_count, ret, site, phases, qcalls, passes, errlog, last,
                   destroyed, freeCalls>>

\* ff_avfilter_graph_config_links: node i has an output pad and is passed over
ConfigLinksSkip ==
    /\ pc = "links"
    /\ i <= Len(filters)
    /\ Len(filters[i].outputs) # 0
    /\ i' = i + 1
    /\ UNCHANGED <<graph, filters, links, fsets, queried, registry, pc, j, scaler_count,
                   resampler_count, ret, site, phases, qcalls, cfgcalls, passes, errlog, last,
                   destroyed, freeCalls>>

(* node i has no output pad: avfilter_config_links (libavfilter/avfilter.c) *)
(* is called on it and returns r; a value other than 0 is returned at once. *)
ConfigLinksRoot(r) ==
    /\ pc = "links"
    /\ i <= Len(filters)
    /\ Len(filters[i].outputs) = 0
    /\ cfgcalls' = Append(cfgcalls, i)
    /\ \E early \in (IF r = 0 THEN {FALSE} ELSE BOOLEAN) :
          links' = ConfigLinks(filters, links, i, r, early)
    /\ IF r # 0
       THEN ConfigReturns(r, "links") /\ i' = i
       ELSE i' = i + 1 /\ UNCHANGED <<pc, ret, site>>
    /\ UNCHANGED <<graph, filters, fsets, queried, registry, j, scaler_count,
                   resampler_count, phases, qcalls, passes, errlog, last, destroyed,
                   freeCalls>>

\* the loop is over: ff_avfilter_graph_config_links and avfilter_graph_config return 0
ConfigLinksDone ==
    /\ pc = "links"
    /\ i > Len(filters)
    /\ ConfigReturns(0, "end")
    /\ UNCHANGED <<graph, filters, links, fsets, queried, registry, i, j, scaler_count,
                   resampler_count, phases, qcalls, cfgcalls, passes, errlog, last,
                   destroyed, freeCalls>>

Next ==
    \/ \E t \in UserTypes, o \in CreateOutcomes : CreateFilter(t, o)
    \/ \E s \in DOMAIN filters, d \in DOMAIN filters :
          \E sp \in DOMAIN filters[s].outputs, dp \in DOMAIN filters[d].inputs : Link(s, sp, d, dp)
    \/ GraphFree
    \/ GraphConfig
    \/ QueryFormats
    \/ MergeNextFilter
    \/ \E o \in CreateOutcomes, found \in BOOLEAN : MergeLink(o, found)
    \/ MergeDone
    \/ ReducePass
    \/ PickFormats
    \/ ConfigLinksSkip
    \/ \E r \in {0, NodeError} : ConfigLinksRoot(r)
    \/ ConfigLinksDone

Spec == Init /\ [][Next]_vars

\* ============================================================== properties
\* ------------------------------------------------ what the properties use
IsPrefix(s, t) == Len(s) <= Len(t) /\ s = SubSeq(t, 1, Len(s))

AllPhases == <<"validity", "formats", "links">>

\* the converters query_formats inserted
AutoInserted == {n \in DOMAIN filters : filters[n].filter \in {"scale", "resample"}}

\* the nodes of a type that come before node n
Earlier(t, n) == {m \in 1..(n - 1) : filters[m].filter = t}

NodesOf(t) == {n \in DOMAIN filters : filters[n].filter = t}

\* every link that has been given a format, or a list
Negotiated ==
    \/ fsets # <<>>
    \/ \E l \in DOMAIN links : links[l].format # NoFormat

FormatsFailed == {"create", "no resample", "unknown kind", "unmergeable"}

(* C1: avfilter_graph_config enters the validity check, the format          *)
(* negotiation and the link configuration in that order; it returns at the  *)
(* first phase that fails, with that phase's value, and no operation of a   *)
(* later phase has run: after a failed validity check no query_formats      *)
(* callback ran, no converter is in the graph and no link has a format or a *)
(* list; after failed formats no link was configured.                       *)
C1_PhasesInOrder ==
    /\ IsPrefix(phases, AllPhases)
    /\ pc = "idle" => phases = <<>>
    /\ pc \in {"query", "merge", "reduce", "pick"} => phases = <<"validity", "formats">>
    /\ pc = "links" => phases = AllPhases
    /\ qcalls # <<>> => Len(phases) >= 2 /\ site # "unconnected"
    /\ cfgcalls # <<>> => phases = AllPhases
    /\ pc \in {"query", "merge", "reduce", "pick", "links"} =>
          GraphCheckValidity(filters, links).ret = 0
    /\ pc = "done" =>
          /\ ret = 0 <=> site = "end"
          /\ site \in {"unconnected", "links", "end"} \cup FormatsFailed
          /\ site = "unconnected" =>
                /\ phases = <<"validity">>
                /\ ret = GraphCheckValidity(filters, links).ret
                /\ qcalls = <<>> /\ cfgcalls = <<>>
                /\ AutoInserted = {}
                /\ ~Negotiated
          /\ site \in FormatsFailed =>
                /\ phases = <<"validity", "formats">>
                /\ ret < 0
                /\ cfgcalls = <<>>
                /\ \A l \in DOMAIN links : links[l].format = NoFormat
          /\ site = "links" =>
                /\ phases = AllPhases
                /\ ret = NodeError
                /\ cfgcalls # <<>>
          /\ site = "end" => phases = AllPhases /\ ret = 0

\* C1: all three phases ran on a graph with a converter, the last of them failed
C1_Witness ==
    /\ pc = "done" /\ site = "links" /\ ret = NodeError
    /\ AutoInserted # {}
    /\ Len(cfgcalls) = 1

(* C2: after avfilter_graph_config returned 0 the format of every link, the *)
(* two links around a converter included, is in the list its source side    *)
(* was queried for and in the list its destination side was queried for.    *)
C2_FormatInBothLists ==
    (pc = "done" /\ site = "end") =>
        \A l \in DOMAIN links :
            /\ links[l].format \in Range(queried[l].src)
            /\ links[l].format \in Range(queried[l].dst)

\* C2: a configured graph with a converter, so with links made by an insertion
C2_Witness ==
    /\ pc = "done" /\ site = "end"
    /\ AutoInserted # {}
    /\ \E l \in DOMAIN links : Len(queried[l].src) > 1 /\ Len(queried[l].dst) = 1

\* how often link l is handed to pick_format
Visits(l) == Cardinality({k \in DOMAIN PickOrder(filters, 1) : PickOrder(filters, 1)[k] = l})

\* the links on the pads of the nodes
PadLinks ==
    UNION {Range(filters[n].inputs) \cup Range(filters[n].outputs) : n \in DOMAIN filters}

(* C3: once the formats phase has returned 0, every link on a pad of a node *)
(* has one format of its media type and neither in_formats nor out_formats, *)
(* each link having been handed to pick_format twice.                       *)
C3_PickedAndReleased ==
    (pc \in {"links", "done"} /\ phases = AllPhases) =>
        /\ PadLinks = DOMAIN links
        /\ \A l \in PadLinks :
              /\ links[l].format \in Range(AllFormats)
              /\ links[l].in_formats = NoSet
              /\ links[l].out_formats = NoSet
              /\ Visits(l) = 2

\* C3: the formats phase has just returned 0 on a graph with three links or more
C3_Witness ==
    /\ pc = "links" /\ i = 1
    /\ Cardinality(DOMAIN links) >= 3
    /\ \A l \in DOMAIN links : Visits(l) = 2

\* every pad of every node has a link with a node at its other end
AllPadsBound(fs, ls) ==
    \A n \in DOMAIN fs :
        /\ \A k \in DOMAIN fs[n].inputs :
              fs[n].inputs[k] # NoLink /\ ls[fs[n].inputs[k]].src # NoNode
        /\ \A k \in DOMAIN fs[n].outputs :
              fs[n].outputs[k] # NoLink /\ ls[fs[n].outputs[k]].dst # NoNode

\* the pads of the nodes: <<node, 1 for an input or 2 for an output, pad>>
Pads(fs) ==
    UNION {{<<n, 1, k>> : k \in DOMAIN fs[n].inputs} \cup
           {<<n, 2, k>> : k \in DOMAIN fs[n].outputs} : n \in DOMAIN fs}

\* pad p has no link, or a link with no node at the other end
Unmet(fs, ls, p) ==
    IF p[2] = 1
    THEN fs[p[1]].inputs[p[3]] = NoLink \/ ls[fs[p[1]].inputs[p[3]]].src = NoNode
    ELSE fs[p[1]].outputs[p[3]] = NoLink \/ ls[fs[p[1]].outputs[p[3]]].dst = NoNode

\* the traversal order: by node, inputs before outputs, by pad index
Before(p, q) ==
    \/ p[1] < q[1]
    \/ p[1] = q[1] /\ p[2] < q[2]
    \/ p[1] = q[1] /\ p[2] = q[2] /\ p[3] < q[3]

IsFirstUnmet(fs, ls, p) ==
    /\ Unmet(fs, ls, p)
    /\ \A q \in Pads(fs) : (Unmet(fs, ls, q) /\ q # p) => Before(p, q)

(* C4: the validity check succeeds exactly when every pad of every node has *)
(* a link with a node at the other end; else it fails at the first such pad *)
(* in the order nodes, then input pads, then output pads, the log naming    *)
(* that node and pad; the graph is the same after the check as before.      *)
C4_ValidityCheck ==
    [][(pc = "idle" /\ pc' \in {"query", "done"}) =>
          /\ pc' = "query" <=> AllPadsBound(filters, links)
          /\ pc' = "done" =>
                /\ ret' < 0
                /\ \E p \in Pads(filters) :
                      /\ IsFirstUnmet(filters, links, p)
                      /\ errlog'.node = p[1]
                      /\ errlog'.pad = p[3]
                      /\ errlog'.msg = IF p[2] = 1 THEN "input pad not connected"
                                       ELSE "output pad not connected"
                      /\ errlog'.a = filters[p[1]].name
          /\ filters' = filters
          /\ links' = links
          /\ fsets' = fsets
          /\ queried' = queried]_vars

(* C4: the check failed at the second input pad of the second node, a later *)
(* node having an unmet pad too                                             *)
C4_Witness ==
    /\ pc = "done" /\ site = "unconnected"
    /\ errlog.node = 2 /\ errlog.pad = 2 /\ errlog.msg = "input pad not connected"
    /\ Len(filters) = 3
    /\ ~AllPadsBound(<<filters[3]>>, links)

\* the value each failing step of avfilter_graph_create_filter gives
StepError(outcome) ==
    CASE outcome = "open_nomem" -> AVERROR(ENOMEM)
      [] outcome = "init_error" -> NodeError
      [] outcome = "add_nomem"  -> AVERROR(ENOMEM)
      [] OTHER -> 0

(* C5: a call of avfilter_graph_create_filter whose open, init or add step  *)
(* fails returns that step's error with *filt_ctx cleared, the node (when   *)
(* one was opened) freed, and graph->filters as it was; a call that         *)
(* succeeds has appended the node as the last of graph->filters.  The same  *)
(* holds of the converters query_formats creates.                           *)
C5_CreateIsAtomic ==
    [][/\ (pc = "idle" /\ last'.op = "create") =>
             IF last'.outcome # "ok"
             THEN /\ last'.ret = StepError(last'.outcome)
                  /\ last'.ret < 0
                  /\ last'.handle = NoNode
                  /\ last'.opened = (last'.outcome # "open_nomem")
                  /\ last'.freed = last'.opened
                  /\ filters' = filters
             ELSE /\ last'.ret = 0
                  /\ last'.handle = Len(filters')
                  /\ ~last'.freed
                  /\ Len(filters') = Len(filters) + 1
                  /\ SubSeq(filters', 1, Len(filters)) = filters
                  /\ filters'[Len(filters')].name = <<filters'[Len(filters')].filter, 0>>
       /\ (pc = "merge" /\ site' = "create") => filters' = filters
       /\ pc = "merge" => Len(filters') \in {Len(filters), Len(filters) + 1}]_vars

\* C5: the add step failed on a graph that already holds nodes
C5_Witness ==
    /\ pc = "idle"
    /\ last.op = "create" /\ last.outcome = "add_nomem"
    /\ last.ret = AVERROR(ENOMEM) /\ last.freed
    /\ Len(filters) = 2

\* the nodes from the last to the first, as avfilter_graph_free is to free them
LastToFirst(fs) ==
    Reverse([n \in 1..Len(fs) |-> [node |-> n, filter |-> fs[n].filter]])

(* C6: avfilter_graph_free frees the nodes from the last added to the first *)
(* (so a converter before the nodes that were there when it was inserted),  *)
(* each once, and clears the handle; on an empty graph it frees no node; a  *)
(* second call on the cleared handle frees nothing; nothing else frees.     *)
C6_FreeLastToFirst ==
    [][/\ (graph /\ ~graph') =>
             /\ destroyed' = destroyed \o LastToFirst(filters)
             /\ filters' = <<>>
       /\ (~graph \/ graph') => destroyed' = destroyed
       /\ ~graph => ~graph']_vars

\* C6: a graph with a converter was freed, and avfilter_graph_free called again
C6_Witness ==
    /\ ~graph /\ freeCalls = 2
    /\ Len(destroyed) >= 3
    /\ destroyed[1].filter = "scale"
    /\ destroyed[Len(destroyed)].node = 1

\* the merge loop is at a link whose two lists have no format in common
AtUnmergeable ==
    /\ pc = "merge"
    /\ i <= Len(filters)
    /\ j <= Len(filters[i].inputs)
    /\ ~Skipped(filters[i].inputs[j])
    /\ ~MergeFormats(Heap, links[filters[i].inputs[j]].in_formats,
                     links[filters[i].inputs[j]].out_formats).ok

(* C7: at an audio link whose lists have no common format, with "resample"  *)
(* not registered, query_formats returns AVERROR(EINVAL) at once: the nodes *)
(* and the links are what they were before the link was examined; the same *)
(* at such a link of a media type other than audio and video.               *)
C7_NothingInserted ==
    [][(/\ AtUnmergeable
        /\ \/ /\ links[filters[i].inputs[j]].type = "audio"
              /\ registry'.resample = Missing
           \/ links[filters[i].inputs[j]].type \notin {"audio", "video"}) =>
          /\ pc' = "done"
          /\ ret' = AVERROR(EINVAL)
          /\ filters' = filters
          /\ links' = links
          /\ resampler_count' = resampler_count]_vars

\* C7: "resample" was missing at an audio link, after a scaler had been inserted
C7_Witness ==
    /\ pc = "done" /\ site = "no resample"
    /\ registry.resample = Missing
    /\ NodesOf("scale") # {} /\ NodesOf("resample") = {}
    /\ \E l \in DOMAIN links : links[l].type = "audio" /\ links[l].dst = links[l].src

(* C8: the scalers of a run are named "auto-inserted scaler 0", 1, ... in   *)
(* the order of their insertion and the resamplers "auto-inserted resampler *)
(* 0", 1, ...; each counter is the number of converters of its own kind     *)
(* inserted so far, whatever the order of video and audio insertions.       *)
C8_ConverterNames ==
    /\ \A n \in NodesOf("scale") :
          filters[n].name = <<"auto-inserted scaler ", Cardinality(Earlier("scale", n))>>
    /\ \A n \in NodesOf("resample") :
          filters[n].name = <<"auto-inserted resampler ", Cardinality(Earlier("resample", n))>>
    /\ pc \in {"merge", "reduce", "pick", "links"} =>
          /\ scaler_count = Cardinality(NodesOf("scale"))
          /\ resampler_count = Cardinality(NodesOf("resample"))
    /\ pc = "idle" => AutoInserted = {}

\* C8: a run inserted a scaler, then a resampler, then a second scaler
C8_Witness ==
    /\ pc = "done" /\ site = "end"
    /\ \E a, b, c \in DOMAIN filters :
          /\ a < b /\ b < c
          /\ filters[a].name = <<"auto-inserted scaler ", 0>>
          /\ filters[b].name = <<"auto-inserted resampler ", 0>>
          /\ filters[c].name = <<"auto-inserted scaler ", 1>>

(* C9 as stated: the value returned for a pad without a link, or for lists  *)
(* no converter could reconcile, is none of the values returned for an      *)
(* unknown media type or a missing converter, so the value tells the class. *)
C9_ValueTellsClass ==
    (pc = "done" /\ site \in {"unconnected", "unmergeable"}) =>
        ret \notin {UnknownKindError, MissingConverterError}

(* C9: a pad without a link, lists no converter could reconcile, an unknown *)
(* media type and a missing "resample" are all returned as AVERROR(EINVAL). *)
C9_AllEINVAL ==
    (pc = "done" /\ site \in {"unconnected", "unmergeable", "unknown kind", "no resample"}) =>
        ret = AVERROR(EINVAL)

\* C9: the lists around an inserted scaler could not be merged
C9_Witness ==
    /\ pc = "done" /\ site = "unmergeable"
    /\ ret = UnknownKindError
    /\ NodesOf("scale") # {}

RECURSIVE SumCounts(_)
SumCounts(fs) == IF fs = <<>> THEN 0 ELSE Head(fs).format_count + SumCounts(Tail(fs))

Reducing == pc \in {"reduce", "pick", "links", "done"}

(* C10 as stated: the passes of reduce_formats, the last one included, are  *)
(* at most as many as the graph has links.                                  *)
C10_PassesWithinLinks ==
    Reducing => passes <= Cardinality(DOMAIN links)

(* C10: a pass of reduce_formats either lowers the sum of format_count over *)
(* all lists and is followed by another pass, or changes nothing and is the *)
(* last; the passes, the last one included, are at most as many as the      *)
(* graph has links, or one when it has none.                                *)
C10_ReduceTerminates ==
    /\ [](Reducing => (passes <= Cardinality(DOMAIN links) \/ passes <= 1))
    /\ [][pc = "reduce" =>
             /\ passes' = passes + 1
             /\ \/ fsets' = fsets /\ pc' = "pick"
                \/ SumCounts(fsets') < SumCounts(fsets) /\ pc' = "reduce"]_vars

\* C10: two passes on a graph of two links, the first of them cut a list down
C10_Witness ==
    /\ pc = "pick"
    /\ passes = 2
    /\ Cardinality(DOMAIN links) = 2
    /\ \E l \in DOMAIN links : Len(queried[l].src) = 2 /\ fsets[links[l].in_formats].format_count = 1

(* C11: pick_formats gives every link the first format of the list it       *)
(* refers to when reduce_formats has ended, whatever the number of formats  *)
(* in it, so the choice is a function of the lists and their order; links   *)
(* that refer to one list get one format.                                   *)
C11_PickTakesFirst ==
    [][pc = "pick" =>
          /\ pc' = "links"
          /\ \A l \in DOMAIN links :
                /\ links[l].in_formats # NoSet
                /\ links'[l].format = Head(Cands(fsets[links[l].in_formats]))
          /\ \A l, m \in DOMAIN links :
                links[l].in_formats = links[m].in_formats =>
                    links'[l].format = links'[m].format]_vars

(* C11: two links that shared one list of two formats, neither cut down by  *)
(* reduce_formats, both got the first of them                               *)
C11_Witness ==
    /\ pc = "links" /\ passes = 1
    /\ Cardinality(DOMAIN links) = 2
    /\ \A l \in DOMAIN links :
          /\ Len(queried[l].src) >= 2 /\ Len(queried[l].dst) >= 2
          /\ links[l].format = 2
    /\ \E l \in DOMAIN links : queried[l].src = <<2, 1>>

\* ------------------------------------------------- avfilter_graph_get_filter
\* a node's name when avfilter_open was given no inst_name: NULL
NullName == <<>>

\* the names the caller gives its nodes, and asks for
GivenNames == {<<"a", 0>>, <<"b", 0>>}
AskedNames == GivenNames \cup {<<"c", 0>>}
NamedTypes == {"vsrc", "vsink"}

\* a variant of avfilter_graph_get_filter that scans from the last node down
RECURSIVE GraphGetFilterFromLast(_, _, _)
GraphGetFilterFromLast(fs, name, k) ==
    IF k > Len(fs) THEN NoNode
    ELSE IF fs[Len(fs) + 1 - k].name # NullName /\ fs[Len(fs) + 1 - k].name = name
    THEN Len(fs) + 1 - k
    ELSE GraphGetFilterFromLast(fs, name, k + 1)

(* avfilter_graph_get_filter: from filters[k] on, the first node that has a *)
(* name, and whose name strcmp finds equal to the one asked for; else NULL. *)
RECURSIVE GraphGetFilter(_, _, _)
GraphGetFilter(fs, name, k) ==
    IF k > Len(fs) THEN NoNode
    ELSE IF fs[k].name # NullName /\ fs[k].name = name THEN k
    ELSE GraphGetFilter(fs, name, k + 1)

\* the caller creates a node under a name of its choice, or under none
CreateNamed(t, name) ==
    /\ graph
    /\ pc = "idle"
    /\ Len(filters) < MaxFilters
    /\ LET r == GraphCreateFilter(filters, t, name, TRUE, "ok")
       IN  /\ filters' = r.filters
           /\ last' = [op |-> "create", ret |-> r.ret, handle |-> r.handle,
                       opened |-> r.opened, freed |-> r.freed, outcome |-> "ok"]
    /\ UNCHANGED <<graph, links, fsets, queried, cfgvars, destroyed, freeCalls>>

\* the caller asks for the node of a name
GetFilter(name) ==
    /\ graph
    /\ pc = "idle"
    /\ last' = [op |-> "get", ret |-> 0, handle |-> GraphGetFilter(filters, name, 1),
                name |-> name]
    /\ UNCHANGED <<graph, filters, links, fsets, queried, cfgvars, destroyed, freeCalls>>

FindNext ==
    \/ \E t \in NamedTypes, name \in GivenNames \cup {NullName} : CreateNamed(t, name)
    \/ \E name \in AskedNames : GetFilter(name)

\* the caller names its nodes and looks them up
SpecFind == Init /\ [][FindNext]_vars

\* the nodes that have the name
Named(name) == {n \in DOMAIN filters : filters[n].name # NullName /\ filters[n].name = name}

(* C12: avfilter_graph_get_filter returns the first node, in the order of   *)
(* insertion, whose name is the name asked for, NULL when there is none; a  *)
(* node without a name is never returned; the graph is left as it was.      *)
C12_FirstOfTheName ==
    /\ [](last.op = "get" =>
             /\ Named(last.name) = {} => last.handle = NoNode
             /\ Named(last.name) # {} =>
                   /\ last.handle \in Named(last.name)
                   /\ \A n \in Named(last.name) : last.handle <= n
             /\ last.handle # NoNode => filters[last.handle].name # NullName)
    /\ [][last'.op = "get" => filters' = filters /\ links' = links /\ graph' = graph]_vars

(* C12: the name asked for is that of the second and of the third node, the *)
(* first node having no name: the second was returned                       *)
C12_Witness ==
    /\ last.op = "get"
    /\ Len(filters) = 3
    /\ filters[1].name = NullName
    /\ filters[2].name = last.name /\ filters[3].name = last.name
    /\ last.handle = 2

\* the converter type of a media type
ConverterOf(kind) == IF kind = "video" THEN "scale" ELSE "resample"

\* the link the merge loop is at
AtLink == filters[i].inputs[j]

(* C13: a step of the merge loop that inserts a converter at a link from S  *)
(* to D whose lists have no common format appends one node C, of type scale *)
(* for video and resample for audio, to graph->filters; the link now runs   *)
(* from S to input pad 0 of C and a new link runs from output pad 0 of C to *)
(* the input pad of D the link was on; C's query_formats ran in that step,  *)
(* giving both links their lists on C's side; after avfilter_graph_config   *)
(* returned 0 both links of every converter have a format.                  *)
C13_Splice ==
    /\ [][(pc = "merge" /\ Len(filters') # Len(filters)) =>
             /\ AtUnmergeable
             /\ links[AtLink].type \in {"video", "audio"}
             /\ Len(filters') = Len(filters) + 1
             /\ LET C == Len(filters')
                    l == AtLink
                    n == filters'[C].outputs[1]
                    S == links[l].src
                    D == links[l].dst
                IN  /\ filters'[C].filter = ConverterOf(links[l].type)
                    /\ \A k \in DOMAIN filters : filters'[k].filter = filters[k].filter
                    /\ DOMAIN links' = DOMAIN links \cup {n} /\ n \notin DOMAIN links
                    /\ filters'[C].inputs = <<l>>
                    /\ links'[l].src = S /\ links'[l].srcpad = links[l].srcpad
                    /\ links'[l].dst = C /\ links'[l].dstpad = 1
                    /\ filters'[S].outputs[links[l].srcpad] = l
                    /\ links'[n].src = C /\ links'[n].srcpad = 1
                    /\ links'[n].dst = D /\ links'[n].dstpad = links[l].dstpad
                    /\ filters'[D].inputs[links[l].dstpad] = n
                    /\ links'[n].type = links[l].type
                    /\ qcalls' = Append(qcalls, C)
                    /\ queried'[l].src = queried[l].src
                    /\ queried'[n].dst = queried[l].dst
                    /\ queried'[l].dst = Descriptor(filters'[C].filter).accepts[1]
                    /\ queried'[n].src = Descriptor(filters'[C].filter).offers[1]]_vars
    /\ []((pc = "done" /\ site = "end") =>
             \A C \in AutoInserted :
                 /\ links[filters[C].inputs[1]].format \in Range(AllFormats)
                 /\ links[filters[C].outputs[1]].format \in Range(AllFormats))

(* C13: a source and a sink with one link between them were configured: 3   *)
(* nodes and 2 links, each with its format                                  *)
C13_Witness ==
    /\ pc = "done" /\ site = "end"
    /\ Len(filters) = 3 /\ Cardinality(DOMAIN links) = 2
    /\ filters[1].filter = "vsrc" /\ filters[2].filter = "vsink"
    /\ filters[3].name = <<"auto-inserted scaler ", 0>>
    /\ links[filters[3].inputs[1]].format = 1 /\ links[filters[3].inputs[1]].src = 1
    /\ links[filters[3].outputs[1]].format = 2 /\ links[filters[3].outputs[1]].dst = 2

\* the identities of the nodes, in the order of graph->filters
Identities(fs) == [n \in DOMAIN fs |-> <<fs[n].filter, fs[n].name>>]

(* C14: when, in the step that inserts a converter, one of the converter's  *)
(* two links still has no common format, avfilter_graph_config ends there   *)
(* with an error: one converter was added in the step and none is added     *)
(* later, reduce_formats and pick_formats never run (no pass, no link with  *)
(* a format), and the nodes, all converters included, keep their places in  *)
(* graph->filters until avfilter_graph_free frees them.                     *)
C14_NoSecondAttempt ==
    /\ [][(pc = "merge" /\ Len(filters') # Len(filters)) =>
             /\ Len(filters') = Len(filters) + 1
             /\ Identities(SubSeq(filters', 1, Len(filters))) = Identities(filters)
             /\ LET C == Len(filters')
                    unmerged(l) == links'[l].in_formats # links'[l].out_formats
                IN  IF unmerged(filters'[C].inputs[1]) \/ unmerged(filters'[C].outputs[1])
                    THEN pc' = "done" /\ site' = "unmergeable" /\ ret' < 0
                    ELSE pc' = "merge"]_vars
    /\ []((pc = "done" /\ site = "unmergeable") =>
             /\ passes = 0
             /\ phases = <<"validity", "formats">>
             /\ \A l \in DOMAIN links : links[l].format = NoFormat
             /\ filters[Len(filters)].filter \in {"scale", "resample"}
             /\ Cardinality(NodesOf("scale")) = scaler_count
             /\ Cardinality(NodesOf("resample")) = resampler_count)
    /\ [][(pc = "done" /\ site = "unmergeable") =>
             \/ filters' = filters /\ destroyed' = destroyed
             \/ /\ ~graph'
                /\ destroyed' = destroyed \o LastToFirst(filters)]_vars

(* C14: the second converter of a run could not be fitted; the first one    *)
(* and it are both still in the graph                                       *)
C14_Witness ==
    /\ pc = "done" /\ site = "unmergeable"
    /\ Cardinality(NodesOf("scale")) = 2
    /\ filters[Len(filters)].name = <<"auto-inserted scaler ", 1>>
    /\ \E l \in DOMAIN links : links[l].in_formats # links[l].out_formats

\* after the failure of line 221: the converter that was spliced in last
Spliced == Len(filters)

(* C15: when the converter's links could not be merged, the error logged    *)
(* names the two nodes the link ran between before the converter was        *)
(* spliced in: its source and the node the converter's output now leads to. *)
C15_LogNamesEndpoints ==
    (pc = "done" /\ site = "unmergeable") =>
        /\ errlog.msg = "impossible to convert"
        /\ errlog.a = filters[links[filters[Spliced].inputs[1]].src].name
        /\ errlog.b = filters[links[filters[Spliced].outputs[1]].dst].name

(* C15: the error logged names the source and, as the other node, the       *)
(* converter itself                                                         *)
C15_Witness ==
    /\ pc = "done" /\ site = "unmergeable"
    /\ errlog.a = <<"vsrc", 0>>
    /\ errlog.b = <<"auto-inserted scaler ", 1>>
    /\ filters[links[filters[Spliced].outputs[1]].dst].name = <<"vsink23", 0>>

\* list id holds the one format f
PinnedTo(fs, id, f) == fs[id].format_count = 1 /\ fs[id].formats[1] = f

(* node n has an input link whose list holds the one format f and an output *)
(* link of the same media type with list id                                 *)
Propagates(fs, n, f, id) ==
    \E a \in DOMAIN filters[n].inputs, b \in DOMAIN filters[n].outputs :
        /\ PinnedTo(fs, links[filters[n].inputs[a]].out_formats, f)
        /\ links[filters[n].outputs[b]].in_formats = id
        /\ links[filters[n].outputs[b]].type = links[filters[n].inputs[a]].type

(* C16: when reduce_formats has ended, no node has an input link whose list *)
(* holds one format f and an output link of the same media type whose list  *)
(* holds several formats, f among them; and a pass changes a list only by   *)
(* cutting one of several formats down to a format f it held, f being the   *)
(* one format of an input link of the node.                                 *)
C16_ReduceFixpoint ==
    /\ [](pc = "pick" =>
             \A n \in DOMAIN filters, id \in DOMAIN fsets, f \in Range(AllFormats) :
                 Propagates(fsets, n, f, id) =>
                     (fsets[id].format_count = 1 \/ f \notin Range(Cands(fsets[id]))))
    /\ [][pc = "reduce" =>
             /\ DOMAIN fsets' = DOMAIN fsets
             /\ links' = links /\ filters' = filters
             /\ \A id \in DOMAIN fsets :
                   \/ fsets'[id] = fsets[id]
                   \/ /\ fsets[id].format_count > 1
                      /\ fsets'[id].format_count = 1
                      /\ fsets'[id].formats[1] \in Range(Cands(fsets[id]))
                      /\ \E n \in DOMAIN filters :
                            Propagates(fsets', n, fsets'[id].formats[1], id)]_vars

(* C16: reduce_formats has ended after cutting the list <<2, 1>> on the     *)
(* output of a vpass node down to format 1, the format of its input         *)
C16_Witness ==
    /\ pc = "pick" /\ passes >= 2
    /\ \E n \in NodesOf("vpass") :
          /\ queried[filters[n].outputs[1]].src = <<2, 1>>
          /\ Len(queried[filters[n].outputs[1]].dst) = 3
          /\ PinnedTo(fsets, links[filters[n].outputs[1]].in_formats, 1)
          /\ PinnedTo(fsets, links[filters[n].inputs[1]].out_formats, 1)

\* the nodes without an output pad, up to node n, in the order of graph->filters
RECURSIVE RootsUpTo(_)
RootsUpTo(n) ==
    IF n = 0 THEN <<>>
    ELSE RootsUpTo(n - 1) \o (IF Len(filters[n].outputs) = 0 THEN <<n>> ELSE <<>>)

(* C17: ff_avfilter_graph_config_links calls avfilter_config_links on the   *)
(* nodes without an output pad and on no other (so on no converter), in the *)
(* order of graph->filters; when a call fails its value is returned at      *)
(* once, no later node is called, and a link that was configured stays      *)
(* configured.                                                              *)
C17_RootsInOrder ==
    /\ [](pc \in {"links", "done"} =>
             /\ pc = "links" => cfgcalls = RootsUpTo(i - 1)
             /\ (pc = "done" /\ site = "end") => cfgcalls = RootsUpTo(Len(filters))
             /\ (pc = "done" /\ site = "links") =>
                   /\ cfgcalls # <<>>
                   /\ cfgcalls = RootsUpTo(cfgcalls[Len(cfgcalls)])
                   /\ ret = NodeError
             /\ \A k \in DOMAIN cfgcalls : cfgcalls[k] \notin AutoInserted)
    /\ [][pc = "links" =>
             /\ \A l \in DOMAIN links :
                   links[l].init_state = "init" => links'[l].init_state = "init"
             /\ cfgcalls' = cfgcalls => links' = links
             /\ (pc' = "done" /\ ret' # 0) =>
                   /\ cfgcalls' = Append(cfgcalls, i)
                   /\ site' = "links"]_vars
    /\ [][pc = "done" => cfgcalls' = cfgcalls /\ (links' = links \/ ~graph')]_vars

(* C17: the first of two nodes without an output pad failed at its own      *)
(* input link: the second was not called, and the link the call had         *)
(* configured before, from the source to the scaler, is still configured    *)
C17_Witness ==
    /\ pc = "done" /\ site = "links"
    /\ Len(cfgcalls) = 1
    /\ Len(RootsUpTo(Len(filters))) = 2
    /\ \E l \in DOMAIN links :
          /\ links[l].dst = cfgcalls[1] /\ links[l].init_state = "uninit"
          /\ links[l].src \in AutoInserted
          /\ links[filters[links[l].src].inputs[1]].init_state = "init"

\* the formats two lists have in common
Common(x, y) == Range(x) \cap Range(y)

\* the formats of the list the link refers to on both sides
Shared(ls, fs, l) == Range(Cands(fs[ls[l].in_formats]))

\* the merge loop is at an input pad
AtPad == pc = "merge" /\ i <= Len(filters) /\ j <= Len(filters[i].inputs)

\* the two references of the link the merge loop is at are one list already
OneList == links[AtLink].in_formats = links[AtLink].out_formats

RECURSIVE PadsFrom(_, _)
PadsFrom(fs, n) ==
    IF n > Len(fs) THEN 0 ELSE Len(fs[n].inputs) + 1 + PadsFrom(fs, n + 1)

\* the links whose two references are not one list yet
Unmerged(ls) == {l \in DOMAIN ls : ls[l].in_formats # ls[l].out_formats}

(* What the merge loop has left to do: every link not merged yet may bring  *)
(* one node with one input pad, and the loop has the pads from (i, j) on.   *)
MergeLeft(fs, ls, n, k) == 3 * Cardinality(Unmerged(ls)) + PadsFrom(fs, n) + 1 - k

\* the links that were there when avfilter_graph_config was called
StartLinks == {l \in DOMAIN links : links[l].src \notin AutoInserted}

(* C19: the merge loop of query_formats ends: every step of it that does    *)
(* not return lowers a count that is never negative, although a step may    *)
(* append a node.  The loop index goes up by one at most and the loop ends  *)
(* past the last node, so the appended converters are reached too; when it  *)
(* is at a converter the converter's input link has one list already and    *)
(* the step adds nothing.  Every converter stands between the two ends of a *)
(* link that was there at the start, one converter at most on each, and the *)
(* nodes that were there keep their places in graph->filters.               *)
C19_MergeTerminates ==
    /\ [][(pc = "merge" /\ pc' = "merge") =>
             /\ MergeLeft(filters', links', i', j') < MergeLeft(filters, links, i, j)
             /\ MergeLeft(filters', links', i', j') >= 0
             /\ i' = i \/ (i' = i + 1 /\ j > Len(filters[i].inputs))]_vars
    /\ [][(pc = "merge" /\ pc' = "reduce") => i = Len(filters) + 1]_vars
    /\ [][pc = "merge" =>
             /\ Len(filters') \in {Len(filters), Len(filters) + 1}
             /\ Identities(SubSeq(filters', 1, Len(filters))) = Identities(filters)
             /\ (AtPad /\ i \in AutoInserted) =>
                   /\ links[AtLink].in_formats = links[AtLink].out_formats
                   /\ filters' = filters /\ links' = links]_vars
    /\ [](pc \in {"merge", "reduce", "pick", "links", "done"} =>
             /\ \A c \in AutoInserted :
                   /\ filters[c].inputs[1] \in StartLinks
                   /\ links[filters[c].inputs[1]].dst = c
                   /\ links[filters[c].outputs[1]].dst \notin AutoInserted
             /\ Cardinality(AutoInserted) <= Cardinality(StartLinks)
             /\ DOMAIN links = StartLinks \cup {filters[c].outputs[1] : c \in AutoInserted})

(* C19: the merge loop ended past two converters it had appended, one on    *)
(* each of the two links of a chain of three nodes                          *)
C19_Witness ==
    /\ pc = "reduce" /\ passes = 0
    /\ Cardinality(AutoInserted) = 2 /\ Cardinality(StartLinks) = 2
    /\ Len(filters) = 5 /\ i = 6
    /\ AutoInserted = {4, 5}

====
